---- MODULE Spec2Model ----
(***************************************************************************)
(* The on-chain ledger program of program/src/lib.rs: one account whose    *)
(* data holds a bincode-encoded Data { number, balance }, driven by        *)
(* process_instruction(program_id, accounts, instruction_data).            *)
(*                                                                         *)
(* Scaling.  TLC cannot hold 2^64, so the widths of the wire layout are    *)
(* scaled down and kept as named bounds: a storage cell ("byte") holds a   *)
(* digit of Byte instead of 0..255, a u64 is U64Len cells, the u32 variant *)
(* tag of a bincode enum is U32Len cells and a Pubkey is PubkeyLen cells.  *)
(* The layout itself is bincode's: fixed width, little-endian, fields in   *)
(* declaration order, no length prefix for fixed-size fields.              *)
(***************************************************************************)
EXTENDS Integers, Sequences, FiniteSets, TLC

\* Cells of a u64 (8 bytes in the build).
U64Len == 2
\* Cells of the u32 variant tag of a bincode enum (4 bytes in the build).
U32Len == 2
\* Cells of a Pubkey (32 bytes in the build).
PubkeyLen == 1

\* Values of one storage cell (0..255 in the build).
Byte == {0, 1}
Radix == Cardinality(Byte)

RECURSIVE Pow(_, _)
Pow(b, n) == IF n = 0 THEN 1 ELSE b * Pow(b, n - 1)

\* u64::MAX + 1 and u64::MAX at the scaled width.
U64Modulus == Pow(Radix, U64Len)
U64Max == U64Modulus - 1
U64 == 0..U64Max

Pubkeys == [1..PubkeyLen -> Byte]

(***************************************************************************)
(* bincode (fixint, little-endian).                                        *)
(***************************************************************************)
\* Mutant: most significant cell first.
ToBeBytes(v, n) == [i \in 1..n |-> (v \div Pow(Radix, n - i)) % Radix]

\* v as n little-endian cells.
ToLeBytes(v, n) == [i \in 1..n |-> (v \div Pow(Radix, i - 1)) % Radix]

RECURSIVE FromLeBytes(_)
FromLeBytes(s) == IF s = <<>> THEN 0 ELSE Head(s) + Radix * FromLeBytes(Tail(s))

Take(s, n) == SubSeq(s, 1, n)
Drop(s, n) == SubSeq(s, n + 1, Len(s))

\* Mutant: the fields written in the wrong order.
Serialize_Data_swapped(d) == ToLeBytes(d.balance, U64Len) \o ToLeBytes(d.number, U64Len)

\* #[derive(Serialize)] on Data: number then balance, each a fixed-width u64.
Serialize_Data(d) == ToLeBytes(d.number, U64Len) \o ToLeBytes(d.balance, U64Len)

\* bincode::deserialize::<Data>: fails on a short buffer, ignores bytes after
\* the value (bincode::deserialize allows trailing bytes).
Deserialize_Data(bytes) ==
    IF Len(bytes) < 2 * U64Len
    THEN [ok |-> FALSE, number |-> 0, balance |-> 0]
    ELSE [ok |-> TRUE,
          number |-> FromLeBytes(Take(bytes, U64Len)),
          balance |-> FromLeBytes(Take(Drop(bytes, U64Len), U64Len))]

\* Variant indices of enum Command, in declaration order.
TagDeposit == 0
TagWithdraw == 1
TagCheckBalance == 2

NoInstruction ==
    [ok |-> FALSE, kind |-> "None", amount |-> 0, program_id |-> [i \in 1..PubkeyLen |-> 0]]

\* The command of a decoded tag, and the number of payload cells it carries.
KindOfTag(tag) ==
    IF tag = TagDeposit THEN "Deposit"
    ELSE IF tag = TagWithdraw THEN "Withdraw"
    ELSE IF tag = TagCheckBalance THEN "CheckBalance"
    ELSE "None"

PayloadLen(kind) == IF kind \in {"Deposit", "Withdraw"} THEN U64Len ELSE 0

\* bincode::deserialize::<CommandInstruction>: u32 variant tag, the variant's
\* fields, then the 32 bytes of program_id; an unknown tag or a short buffer
\* is an error, bytes after the value are ignored.
Deserialize_CommandInstruction(bytes) ==
    IF Len(bytes) < U32Len THEN NoInstruction
    ELSE LET kind == KindOfTag(FromLeBytes(Take(bytes, U32Len)))
             rest == Drop(bytes, U32Len)
         IN  IF kind = "None" THEN NoInstruction
             ELSE IF Len(rest) < PayloadLen(kind) + PubkeyLen THEN NoInstruction
             ELSE [ok |-> TRUE,
                   kind |-> kind,
                   amount |-> FromLeBytes(Take(rest, PayloadLen(kind))),
                   program_id |-> Take(Drop(rest, PayloadLen(kind)), PubkeyLen)]

\* bincode::serialize of a CommandInstruction, as the clients and tests build it.
Serialize_CommandInstruction(kind, amount, pk) ==
    IF kind = "Deposit" THEN ToLeBytes(TagDeposit, U32Len) \o ToLeBytes(amount, U64Len) \o pk
    ELSE IF kind = "Withdraw" THEN ToLeBytes(TagWithdraw, U32Len) \o ToLeBytes(amount, U64Len) \o pk
    ELSE ToLeBytes(TagCheckBalance, U32Len) \o pk

(***************************************************************************)
(* process_instruction.                                                    *)
(***************************************************************************)
\* An outcome of a call: what it returned and the account list it leaves.
\* "Panic" is an abort of the program: the host fails the transaction and
\* keeps none of its writes.
Outcome(result, accounts) == [result |-> result, accounts |-> accounts]

\* Mutant: = in place of +=.
add_assign_overwrite(balance, amount) == {[panic |-> FALSE, value |-> amount]}

\* data.balance += amount on u64.  The sum fits: the sum.  It does not fit:
\* the build decides, a panic with overflow checks on (debug, the tests) and
\* the sum modulo 2^64 with them off (release); both are kept.
add_assign(balance, amount) ==
    IF balance + amount <= U64Max
    THEN {[panic |-> FALSE, value |-> balance + amount]}
    ELSE {[panic |-> TRUE, value |-> balance],
          [panic |-> FALSE, value |-> (balance + amount) % U64Modulus]}

\* Mutant: the funds check rejects amount == balance too.
apply_command_strict(instruction, d) ==
    IF instruction.kind = "Deposit"
    THEN {[result |-> IF s.panic THEN "Panic" ELSE "Ok",
           data |-> [d EXCEPT !.balance = s.value]] : s \in add_assign(d.balance, instruction.amount)}
    ELSE IF instruction.kind = "Withdraw"
    THEN IF instruction.amount >= d.balance
         THEN {[result |-> "InsufficientFunds", data |-> d]}
         ELSE {[result |-> "Ok", data |-> [d EXCEPT !.balance = d.balance - instruction.amount]]}
    ELSE {[result |-> "Ok", data |-> d]}

\* Mutant: saturating_sub in place of the funds check.
apply_command_saturating(instruction, d) ==
    IF instruction.kind = "Deposit"
    THEN {[result |-> IF s.panic THEN "Panic" ELSE "Ok",
           data |-> [d EXCEPT !.balance = s.value]] : s \in add_assign(d.balance, instruction.amount)}
    ELSE IF instruction.kind = "Withdraw"
    THEN IF instruction.amount > d.balance
         THEN {[result |-> "Ok", data |-> [d EXCEPT !.balance = 0]]}
         ELSE {[result |-> "Ok", data |-> [d EXCEPT !.balance = d.balance - instruction.amount]]}
    ELSE {[result |-> "Ok", data |-> d]}

\* Mutant: a successful Deposit counts itself in number.
apply_command_counting(instruction, d) ==
    IF instruction.kind = "Deposit"
    THEN {[result |-> IF s.panic THEN "Panic" ELSE "Ok",
           data |-> [d EXCEPT !.balance = s.value,
                              !.number = (d.number + 1) % U64Modulus]] :
                s \in add_assign(d.balance, instruction.amount)}
    ELSE IF instruction.kind = "Withdraw"
    THEN IF instruction.amount > d.balance
         THEN {[result |-> "InsufficientFunds", data |-> d]}
         ELSE {[result |-> "Ok", data |-> [d EXCEPT !.balance = d.balance - instruction.amount]]}
    ELSE {[result |-> "Ok", data |-> d]}

\* The second match on instruction.command: the record after the command, or
\* the error that ends the call.
apply_command(instruction, d) ==
    IF instruction.kind = "Deposit"
    THEN {[result |-> IF s.panic THEN "Panic" ELSE "Ok",
           data |-> [d EXCEPT !.balance = s.value]] : s \in add_assign(d.balance, instruction.amount)}
    ELSE IF instruction.kind = "Withdraw"
    THEN IF instruction.amount > d.balance
         THEN {[result |-> "InsufficientFunds", data |-> d]}
         ELSE {[result |-> "Ok", data |-> [d EXCEPT !.balance = d.balance - instruction.amount]]}
    ELSE {[result |-> "Ok", data |-> d]}

\* Mutant: the Withdraw arm of the validation is missing.
validate_parameters_deposit_only(instruction) ==
    ~(instruction.kind = "Deposit" /\ instruction.amount = 0)

\* The first match on instruction.command: amount == 0 is rejected for
\* Deposit and Withdraw, CheckBalance has nothing to validate.
validate_parameters(instruction) ==
    ~(instruction.kind \in {"Deposit", "Withdraw"} /\ instruction.amount = 0)

\* Read existing data or initialize if empty.
load_data(bytes) ==
    IF Len(bytes) = 0 THEN [ok |-> TRUE, number |-> 0, balance |-> 0]
    ELSE Deserialize_Data(bytes)

\* Mutant: the buffer is replaced by the source, whatever its length.
copy_from_slice_resizing(dst, src) == [panic |-> FALSE, bytes |-> src]

\* slice::copy_from_slice: panics unless both slices have the same length.
copy_from_slice(dst, src) ==
    IF Len(dst) # Len(src) THEN [panic |-> TRUE, bytes |-> dst]
    ELSE [panic |-> FALSE, bytes |-> src]

\* Mutant: the record is saved to the last account of the list.
persist_last(accounts, d) ==
    LET c == copy_from_slice(accounts[Len(accounts)].data,
                             Serialize_Data([number |-> d.number, balance |-> d.balance]))
    IN  IF c.panic THEN Outcome("Panic", accounts)
        ELSE Outcome("Ok", [accounts EXCEPT ![Len(accounts)].data = c.bytes])

\* Serialize and save the data back to the account.
persist(accounts, d) ==
    LET c == copy_from_slice(accounts[1].data, Serialize_Data([number |-> d.number, balance |-> d.balance]))
    IN  IF c.panic THEN Outcome("Panic", accounts)
        ELSE Outcome("Ok", [accounts EXCEPT ![1].data = c.bytes])

\* Mutant: the ownership check runs before the writability check.
check_account_owner_first(program_id_, account) ==
    IF account.owner # program_id_ THEN "IncorrectProgramId"
    ELSE IF ~account.is_writable THEN "InvalidAccountData"
    ELSE "Ok"

\* Mutant: the variant of the program without the ownership check.
check_account_no_owner(program_id_, account) ==
    IF ~account.is_writable THEN "InvalidAccountData" ELSE "Ok"

\* Ensure the account is writable, then that it is owned by the program:
\* "Ok", or the error of the first check that fails.
check_account(program_id_, account) ==
    IF ~account.is_writable THEN "InvalidAccountData"
    ELSE IF account.owner # program_id_ THEN "IncorrectProgramId"
    ELSE "Ok"

\* Mutant: the variant of the program without the authorization check.
check_instruction_no_authorization(account, instruction) ==
    IF ~validate_parameters(instruction) THEN "InvalidInstructionData" ELSE "Ok"

\* Mutant: the authorization check runs before the parameter validation.
check_instruction_owner_first(account, instruction) ==
    IF account.owner # instruction.program_id THEN "IncorrectProgramId"
    ELSE IF ~validate_parameters(instruction) THEN "InvalidInstructionData"
    ELSE "Ok"

\* Validate the instruction parameters, then ensure the account is owned by
\* the instruction program: "Ok", or the error of the first check that fails.
check_instruction(account, instruction) ==
    IF ~validate_parameters(instruction) THEN "InvalidInstructionData"
    ELSE IF account.owner # instruction.program_id THEN "IncorrectProgramId"
    ELSE "Ok"

\* The end of the call for one outcome of the command: an error returns
\* before anything is saved, a success saves the record.
finish(accounts, a) ==
    IF a.result = "Ok" THEN persist(accounts, a.data) ELSE Outcome(a.result, accounts)

\* Mutant: the command is applied and saved before the instruction's
\* parameters and claimed owner are checked.
process_instruction_late_validation(program_id_, accounts, instruction_data) ==
    IF accounts = <<>> THEN {Outcome("NotEnoughAccountKeys", accounts)}
    ELSE LET account == accounts[1]
             instruction == Deserialize_CommandInstruction(instruction_data)
             loaded == load_data(account.data)
         IN  IF check_account(program_id_, account) # "Ok"
             THEN {Outcome(check_account(program_id_, account), accounts)}
             ELSE IF ~instruction.ok THEN {Outcome("InvalidAccountData", accounts)}
             ELSE IF ~loaded.ok THEN {Outcome("InvalidAccountData", accounts)}
             ELSE {IF o.result = "Ok" /\ check_instruction(account, instruction) # "Ok"
                   THEN Outcome(check_instruction(account, instruction), o.accounts)
                   ELSE o :
                     o \in {finish(accounts, a) : a \in apply_command(instruction, loaded)}}

process_instruction(program_id_, accounts, instruction_data) ==
    IF accounts = <<>> THEN {Outcome("NotEnoughAccountKeys", accounts)}
    ELSE LET account == accounts[1]
             instruction == Deserialize_CommandInstruction(instruction_data)
             loaded == load_data(account.data)
         IN  IF check_account(program_id_, account) # "Ok"
             THEN {Outcome(check_account(program_id_, account), accounts)}
             ELSE IF ~instruction.ok THEN {Outcome("InvalidAccountData", accounts)}
             ELSE IF check_instruction(account, instruction) # "Ok"
             THEN {Outcome(check_instruction(account, instruction), accounts)}
             ELSE IF ~loaded.ok THEN {Outcome("InvalidAccountData", accounts)}
             ELSE {finish(accounts, a) : a \in apply_command(instruction, loaded)}

(***************************************************************************)
(* The host: one account, one deployed program, one instruction at a time. *)
(***************************************************************************)
VARIABLES
    program_id,   \* the id the program is deployed under
    owner,        \* the account's owner
    data,         \* the account's data
    pc,           \* "idle", or "returned" while a transaction's result is held
    call,         \* the instruction of the transaction held
    pre,          \* the account's data when that instruction started
    result        \* what process_instruction returned for it

\* A session of instructions on the account: a second account that
\* transactions may list after it, and the amounts moved so far.
VARIABLES
    other,        \* the data of the second account
    deposited,    \* sum of the amounts of the successful Deposits
    withdrawn     \* sum of the amounts of the successful Withdraws

session_vars == <<other, deposited, withdrawn>>

\* The codec on its own: a Data and a CommandInstruction, each taken through
\* bincode::serialize and bincode::deserialize.
VARIABLES
    codec_data,         \* [pc, value, bytes, back] of the Data
    codec_instruction   \* [pc, value, bytes, back] of the CommandInstruction

codec_vars == <<codec_data, codec_instruction>>

\* The transfer tool (transfer/src/main.rs).
VARIABLES
    t_pc,           \* where main is
    wallets,        \* config.wallets: for each entry, whether it is a base58 keypair
    recipients,     \* config.recipients: for each entry, whether it parses as a Pubkey
    attempts,       \* get_latest_blockhash: the local of that name
    rpc_log,        \* what each rpc_client.get_latest_blockhash() returned
    sleeps,         \* the duration of each tokio::time::sleep, in seconds
    recent_blockhash,  \* what get_latest_blockhash returned to main
    handles,        \* the spawned tasks, in spawn order
    results         \* main's results vector

transfer_vars ==
    <<t_pc, wallets, recipients, attempts, rpc_log, sleeps, recent_blockhash, handles, results>>

\* The subscriber (subscriber/src/main.rs).
VARIABLES
    s_pc,        \* where main is
    s_config,    \* config.wallet_private_key (whether it is a base58 keypair)
                 \* and config.recipient_address
    events,      \* the items stream.next() has yielded, in order
    transfers,   \* the calls of send_transaction that returned, in order
    s_result     \* what main returned

subscriber_vars == <<s_pc, s_config, events, transfers, s_result>>

tool_vars == <<codec_vars, transfer_vars, subscriber_vars>>

ledger_vars == <<program_id, owner, data, pc, call, pre, result, session_vars>>

vars == <<ledger_vars, tool_vars>>

\* Nothing of the codec run or of the transfer tool is under way.
NoCodec == [pc |-> "none", value |-> <<>>, bytes |-> <<>>, back |-> <<>>]
CodecParked == codec_data = NoCodec /\ codec_instruction = NoCodec
TransferParked ==
    /\ t_pc = "none"
    /\ wallets = <<>>
    /\ recipients = <<>>
    /\ attempts = 0
    /\ rpc_log = <<>>
    /\ sleeps = <<>>
    /\ recent_blockhash = "None"
    /\ handles = <<>>
    /\ results = <<>>
SubscriberParked ==
    /\ s_pc = "none"
    /\ s_config = [wallet_ok |-> FALSE, recipient |-> "None"]
    /\ events = <<>>
    /\ transfers = <<>>
    /\ s_result = "None"
ToolParked == CodecParked /\ TransferParked /\ SubscriberParked

\* Outside a session the second account is never listed.
SessionParked == other = <<>> /\ deposited = 0 /\ withdrawn = 0

SeqsUpTo(n) == UNION {[1..k -> Byte] : k \in 0..n}

\* Every buffer up to one cell longer than the longest encoded instruction.
MaxInstructionLen == U32Len + U64Len + PubkeyLen + 1
InstructionBytes == SeqsUpTo(MaxInstructionLen)

\* Account data as the host holds it: a buffer the host allocated, which is
\* zero-filled and empty, one cell short of a Data or one cell longer, or the
\* buffer of a Data, zero-filled or with any record written to it.
DataLen == 2 * U64Len
Zeroed(n) == [i \in 1..n |-> 0]
AccountData ==
    {Zeroed(0), Zeroed(DataLen - 1), Zeroed(DataLen + 1)} \cup [1..DataLen -> Byte]

NoCall == [accounts_len |-> 0, is_writable |-> FALSE, instruction_data |-> <<>>]

Init ==
    /\ program_id \in Pubkeys
    /\ owner \in Pubkeys
    /\ data \in AccountData
    /\ pc = "idle"
    /\ call = NoCall
    /\ pre = <<>>
    /\ result = "None"
    /\ SessionParked
    /\ ToolParked

\* The account lists a transaction can pass: none, or the account, writable
\* or not as the transaction's AccountMeta says.
AccountLists ==
    {<<>>} \cup {<<[is_writable |-> w, owner |-> owner, data |-> data]>> : w \in BOOLEAN}

\* The host runs one instruction of a transaction.
ProcessInstruction ==
    /\ pc = "idle"
    /\ \E accounts \in AccountLists, ix \in InstructionBytes :
         \E out \in process_instruction(program_id, accounts, ix) :
           /\ call' = [accounts_len |-> Len(accounts),
                       is_writable |-> accounts # <<>> /\ accounts[1].is_writable,
                       instruction_data |-> ix]
           /\ pre' = data
           /\ result' = out.result
           /\ data' = IF out.accounts = <<>> THEN data ELSE out.accounts[1].data
           /\ pc' = "returned"
    /\ UNCHANGED <<program_id, owner, session_vars, tool_vars>>

\* The transaction is over: its result is handed back and the call is gone.
EndTransaction ==
    /\ pc = "returned"
    /\ pc' = "idle"
    /\ call' = NoCall
    /\ pre' = <<>>
    /\ result' = "None"
    /\ UNCHANGED <<program_id, owner, data, session_vars, tool_vars>>

Next == ProcessInstruction \/ EndTransaction

Spec == Init /\ [][Next]_vars

(***************************************************************************)
(* A session: the account starts with balance 0 and is owned by the        *)
(* program; transactions list no account, the account, or the account and  *)
(* a second one.                                                           *)
(***************************************************************************)
\* The deposits followed in a session (guard of the tally, never a limit of
\* the program): enough for the balance to pass the u64 maximum.
MaxTally == U64Modulus

Ones(n) == [i \in 1..n |-> 1]

SessionInit ==
    /\ program_id \in Pubkeys
    /\ owner = program_id
    /\ data \in {Zeroed(0), Zeroed(DataLen)}
    /\ pc = "idle"
    /\ call = NoCall
    /\ pre = <<>>
    /\ result = "None"
    /\ other = Ones(DataLen)
    /\ deposited = 0
    /\ withdrawn = 0
    /\ ToolParked

\* The second account is owned by the program too, writable or not.
SessionLists ==
    AccountLists \cup
    {<<[is_writable |-> w, owner |-> owner, data |-> data],
       [is_writable |-> w2, owner |-> owner, data |-> other]>> : w \in BOOLEAN, w2 \in BOOLEAN}

\* The amount a call moved: the amount of its instruction when it succeeded
\* with this command, 0 otherwise.
Moved(kind, out, ix) ==
    LET instruction == Deserialize_CommandInstruction(ix)
    IN  IF out.result = "Ok" /\ instruction.ok /\ instruction.kind = kind
        THEN instruction.amount ELSE 0

\* The host runs one instruction of a transaction of the session.
SessionInstruction ==
    /\ pc = "idle"
    /\ \E accounts \in SessionLists, ix \in InstructionBytes :
         \E out \in process_instruction(program_id, accounts, ix) :
           /\ deposited + Moved("Deposit", out, ix) <= MaxTally
           /\ call' = [accounts_len |-> Len(accounts),
                       is_writable |-> accounts # <<>> /\ accounts[1].is_writable,
                       instruction_data |-> ix]
           /\ pre' = data
           /\ result' = out.result
           /\ data' = IF out.accounts = <<>> THEN data ELSE out.accounts[1].data
           /\ other' = IF Len(out.accounts) > 1 THEN out.accounts[2].data ELSE other
           /\ deposited' = deposited + Moved("Deposit", out, ix)
           /\ withdrawn' = withdrawn + Moved("Withdraw", out, ix)
           /\ pc' = "returned"
    /\ UNCHANGED <<program_id, owner, tool_vars>>

\* The transaction is over; the session goes on.
SessionEndTransaction ==
    /\ pc = "returned"
    /\ pc' = "idle"
    /\ call' = NoCall
    /\ pre' = <<>>
    /\ result' = "None"
    /\ UNCHANGED <<program_id, owner, data, session_vars, tool_vars>>

SessionNext == SessionInstruction \/ SessionEndTransaction

SpecSession == SessionInit /\ [][SessionNext]_vars

(***************************************************************************)
(* The codec on its own: a Data goes through serialize (lib.rs:88) and      *)
(* deserialize (lib.rs:67), a CommandInstruction through the client's      *)
(* serialize and the program's deserialize (lib.rs:36).                    *)
(***************************************************************************)
\* The ledger is not part of a codec run or of a run of the transfer tool.
LedgerParked ==
    /\ program_id = Zeroed(PubkeyLen)
    /\ owner = Zeroed(PubkeyLen)
    /\ data = <<>>
    /\ pc = "idle"
    /\ call = NoCall
    /\ pre = <<>>
    /\ result = "None"
    /\ SessionParked

\* Every Data, and every CommandInstruction (CheckBalance has no amount).
Records == [number : U64, balance : U64]
Instructions ==
    {[kind |-> k, amount |-> a, program_id |-> p] :
        k \in {"Deposit", "Withdraw"}, a \in U64, p \in Pubkeys}
    \cup {[kind |-> "CheckBalance", amount |-> 0, program_id |-> p] : p \in Pubkeys}

Fresh(value) == [pc |-> "value", value |-> value, bytes |-> <<>>, back |-> <<>>]

CodecInit ==
    /\ LedgerParked
    /\ TransferParked
    /\ SubscriberParked
    /\ codec_data \in {Fresh(r) : r \in Records}
    /\ codec_instruction \in {Fresh(i) : i \in Instructions}

\* serialize(&data)
SerializeData ==
    /\ codec_data.pc = "value"
    /\ codec_data' = [codec_data EXCEPT !.pc = "serialized",
                                        !.bytes = Serialize_Data(codec_data.value)]
    /\ UNCHANGED <<ledger_vars, transfer_vars, subscriber_vars, codec_instruction>>

\* deserialize::<Data>(&account.data.borrow())
DeserializeData ==
    /\ codec_data.pc = "serialized"
    /\ codec_data' = [codec_data EXCEPT !.pc = "deserialized",
                                        !.back = Deserialize_Data(codec_data.bytes)]
    /\ UNCHANGED <<ledger_vars, transfer_vars, subscriber_vars, codec_instruction>>

\* serialize(&instruction), as a client builds instruction_data
SerializeInstruction ==
    /\ codec_instruction.pc = "value"
    /\ codec_instruction' =
         [codec_instruction EXCEPT
            !.pc = "serialized",
            !.bytes = Serialize_CommandInstruction(codec_instruction.value.kind,
                                                   codec_instruction.value.amount,
                                                   codec_instruction.value.program_id)]
    /\ UNCHANGED <<ledger_vars, transfer_vars, subscriber_vars, codec_data>>

\* deserialize::<CommandInstruction>(instruction_data)
DeserializeInstruction ==
    /\ codec_instruction.pc = "serialized"
    /\ codec_instruction' =
         [codec_instruction EXCEPT
            !.pc = "deserialized",
            !.back = Deserialize_CommandInstruction(codec_instruction.bytes)]
    /\ UNCHANGED <<ledger_vars, transfer_vars, subscriber_vars, codec_data>>

CodecNext ==
    \/ SerializeData
    \/ DeserializeData
    \/ SerializeInstruction
    \/ DeserializeInstruction

SpecCodec == CodecInit /\ [][CodecNext]_vars

(***************************************************************************)
(* The transfer tool (transfer/src/main.rs): main fetches a blockhash with *)
(* get_latest_blockhash, spawns one task per wallet/recipient pair, awaits *)
(* the tasks in spawn order and prints their results.                      *)
(***************************************************************************)
\* Entries followed per list of the configuration, and distinct blockhashes
\* the cluster may answer with.
MaxPairs == 2
NumHashes == 2
Hashes == {"Hash" \o ToString(h) : h \in 1..NumHashes}

\* let max_attempts = 5; let delay = Duration::from_secs(2);
max_attempts == 5
delay == 2

\* RPC calls followed in one run (guard of the log, never a limit of the
\* tool): more than the loop can make.
MaxCalls == max_attempts + 2

ConfigLists == UNION {[1..n -> BOOLEAN] : n \in 0..MaxPairs}

\* main after the configuration is loaded and the client is built.
TransferInit ==
    /\ LedgerParked
    /\ CodecParked
    /\ SubscriberParked
    /\ t_pc = "get_latest_blockhash"
    /\ wallets \in ConfigLists
    /\ recipients \in ConfigLists
    /\ attempts = 0
    /\ rpc_log = <<>>
    /\ sleeps = <<>>
    /\ recent_blockhash = "None"
    /\ handles = <<>>
    /\ results = <<>>

\* Mutant: one attempt more.
loop_condition_inclusive(a) == a <= max_attempts

\* while attempts < max_attempts
loop_condition(a) == a < max_attempts

\* Mutant: the failed attempt is not counted.
count_attempt_never(a) == a

\* attempts += 1
count_attempt(a) == a + 1

\* One iteration of the loop up to its await: the RPC call answers with a
\* blockhash, which is returned to main at once, or with an error, which is
\* counted before the sleep.
RpcGetLatestBlockhash ==
    /\ t_pc = "get_latest_blockhash"
    /\ loop_condition(attempts)
    /\ Len(rpc_log) < MaxCalls
    /\ \E answer \in Hashes \cup {"Err"} :
         /\ rpc_log' = Append(rpc_log, answer)
         /\ IF answer = "Err"
            THEN /\ attempts' = count_attempt(attempts)
                 /\ t_pc' = "sleep"
                 /\ UNCHANGED recent_blockhash
            ELSE /\ recent_blockhash' = answer
                 /\ t_pc' = "spawn"
                 /\ UNCHANGED attempts
    /\ UNCHANGED <<ledger_vars, codec_vars, subscriber_vars, wallets, recipients, sleeps, handles, results>>

\* tokio::time::sleep(delay).await completes.
Sleep ==
    /\ t_pc = "sleep"
    /\ sleeps' = Append(sleeps, delay)
    /\ t_pc' = "get_latest_blockhash"
    /\ UNCHANGED <<ledger_vars, codec_vars, subscriber_vars, wallets, recipients, attempts, rpc_log, recent_blockhash, handles, results>>

\* The loop is over: get_latest_blockhash returns Err and main's `?` returns
\* it.
Exhausted ==
    /\ t_pc = "get_latest_blockhash"
    /\ ~loop_condition(attempts)
    /\ recent_blockhash' = "Err"
    /\ t_pc' = "failed"
    /\ UNCHANGED <<ledger_vars, codec_vars, subscriber_vars, wallets, recipients, attempts, rpc_log, sleeps, handles, results>>

Min(a, b) == IF a < b THEN a ELSE b

\* config.wallets.iter().zip(config.recipients.iter())
Pairs == 1..Min(Len(wallets), Len(recipients))

\* One iteration of main's for loop: the pair's keys are parsed (a panic of
\* main when either is invalid) and its task is spawned with the blockhash.
Spawn ==
    /\ t_pc = "spawn"
    /\ Len(handles) + 1 \in Pairs
    /\ LET i == Len(handles) + 1
       IN  IF wallets[i] /\ recipients[i]
           THEN /\ handles' = Append(handles, [pair |-> i,
                                               blockhash |-> recent_blockhash,
                                               output |-> "None"])
                /\ UNCHANGED t_pc
           ELSE /\ t_pc' = "panicked"
                /\ UNCHANGED handles
    /\ UNCHANGED <<ledger_vars, codec_vars, subscriber_vars, wallets, recipients, attempts, rpc_log, sleeps, recent_blockhash, results>>

\* The for loop is over.
SpawnedAll ==
    /\ t_pc = "spawn"
    /\ Len(handles) + 1 \notin Pairs
    /\ t_pc' = "await"
    /\ UNCHANGED <<ledger_vars, codec_vars, subscriber_vars, wallets, recipients, attempts, rpc_log, sleeps, recent_blockhash, handles, results>>

\* A spawned task runs while main is alive: it sends its transaction and its
\* output is the signature or "Failed to send transaction".
TaskSend ==
    /\ t_pc \in {"spawn", "await"}
    /\ \E i \in 1..Len(handles), output \in {"Signature", "Failed to send transaction"} :
         /\ handles[i].output = "None"
         /\ handles' = [handles EXCEPT ![i].output = output]
    /\ UNCHANGED <<ledger_vars, codec_vars, subscriber_vars, t_pc, wallets, recipients, attempts, rpc_log, sleeps, recent_blockhash, results>>

\* handle.await? of the next handle, once its task is over.
Await ==
    /\ t_pc = "await"
    /\ Len(results) < Len(handles)
    /\ LET h == handles[Len(results) + 1]
       IN  /\ h.output # "None"
           /\ results' = Append(results, [pair |-> h.pair, output |-> h.output])
    /\ UNCHANGED <<ledger_vars, codec_vars, subscriber_vars, t_pc, wallets, recipients, attempts, rpc_log, sleeps, recent_blockhash, handles>>

\* Every handle is awaited: main prints the results and returns Ok(()).
PrintResults ==
    /\ t_pc = "await"
    /\ Len(results) = Len(handles)
    /\ t_pc' = "done"
    /\ UNCHANGED <<ledger_vars, codec_vars, subscriber_vars, wallets, recipients, attempts, rpc_log, sleeps, recent_blockhash, handles, results>>

\* The steps of get_latest_blockhash.
GetLatestBlockhash == RpcGetLatestBlockhash \/ Sleep \/ Exhausted

TransferNext ==
    \/ RpcGetLatestBlockhash
    \/ Sleep
    \/ Exhausted
    \/ Spawn
    \/ SpawnedAll
    \/ TaskSend
    \/ Await
    \/ PrintResults

SpecTransfer == TransferInit /\ [][TransferNext]_vars

\* The RPC call is a blocking call that returns, and the runtime resumes the
\* future when its sleep is over: get_latest_blockhash keeps taking steps
\* while it has one to take.
SpecTransferFair == SpecTransfer /\ WF_vars(GetLatestBlockhash)

(***************************************************************************)
(* The subscriber (subscriber/src/main.rs): main subscribes to the pool     *)
(* account and calls send_transaction for every item of the stream.        *)
(***************************************************************************)
\* Items of the stream followed in one run.
MaxEvents == 3

\* What stream.next() can yield: an account update, another update of the
\* subscription (a ping), or an error status; the loop matches Some(_).
Items == {"account", "ping", "error"}

\* config.recipient_address: an address, or a string that is none.
Recipients == {"RecipientA", "RecipientB", "not a pubkey"}

\* Amount to send in lamports.
Lamports == 1000000000

\* main after subscribe_with_request returned the stream.
SubscriberInit ==
    /\ LedgerParked
    /\ CodecParked
    /\ TransferParked
    /\ s_pc = "wallet"
    /\ s_config \in [wallet_ok : BOOLEAN, recipient : Recipients]
    /\ events = <<>>
    /\ transfers = <<>>
    /\ s_result = "None"

\* Keypair::from_base58_string(&config.wallet_private_key): panics on a
\* string that is no keypair.
ParseWallet ==
    /\ s_pc = "wallet"
    /\ s_pc' = IF s_config.wallet_ok THEN "next" ELSE "panicked"
    /\ UNCHANGED <<ledger_vars, codec_vars, transfer_vars, s_config, events, transfers, s_result>>

\* stream.next().await yields Some(item).
StreamNext ==
    /\ s_pc = "next"
    /\ Len(events) < MaxEvents
    /\ \E item \in Items : events' = Append(events, item)
    /\ s_pc' = "send"
    /\ UNCHANGED <<ledger_vars, codec_vars, transfer_vars, s_config, transfers, s_result>>

\* stream.next().await yields None: the loop is over and main returns Ok(()).
StreamEnd ==
    /\ s_pc = "next"
    /\ s_pc' = "ended"
    /\ s_result' = "Ok"
    /\ UNCHANGED <<ledger_vars, codec_vars, transfer_vars, s_config, events, transfers>>

\* The outcomes of send_transaction: the blockhash fetch fails, or the
\* recipient does not parse, or the transaction is sent and it fails or is
\* confirmed.
send_transaction(recipient) ==
    {"BlockhashError"} \cup
    (IF recipient = "not a pubkey" THEN {"ParsePubkeyError"} ELSE {"SendError", "Ok"})

\* Mutant: the error of send_transaction is dropped.
propagate_never(outcome) == "next"

\* send_transaction(...).await?
propagate(outcome) == IF outcome = "Ok" THEN "next" ELSE "failed"

\* send_transaction(&wallet, &recipient_address).await? for the item just
\* received.
SendTransaction ==
    /\ s_pc = "send"
    /\ \E outcome \in send_transaction(s_config.recipient) :
         /\ transfers' = Append(transfers, [event |-> Len(events),
                                            to |-> s_config.recipient,
                                            lamports |-> Lamports,
                                            outcome |-> outcome])
         /\ s_pc' = propagate(outcome)
         /\ s_result' = IF propagate(outcome) = "failed" THEN outcome ELSE s_result
    /\ UNCHANGED <<ledger_vars, codec_vars, transfer_vars, s_config, events>>

SubscriberNext ==
    \/ ParseWallet
    \/ StreamNext
    \/ StreamEnd
    \/ SendTransaction

SpecSubscriber == SubscriberInit /\ [][SubscriberNext]_vars

(***************************************************************************)
(* The vocabulary of the claims.                                           *)
(***************************************************************************)
\* The error kinds of the specification, as the values the code returns.
NotWritable == "InvalidAccountData"
IncorrectOwner == "IncorrectProgramId"
InvalidParameters == "InvalidInstructionData"
InsufficientFunds == "InsufficientFunds"

\* A call on the account has returned.
Targeted == pc = "returned" /\ call.accounts_len = 1

\* The encoding of every instruction a client can build (@@ <<>> leaves the
\* function as it is and has TLC tabulate it once).
Kinds == {"Deposit", "Withdraw", "CheckBalance"}
Encoding ==
    [kind \in Kinds, amount \in U64, pk \in Pubkeys |->
        Serialize_CommandInstruction(kind, amount, pk)] @@ <<>>

\* The instruction bytes of the call are the encoding of this instruction.
Carries(kind, amount, pk) == call.instruction_data = Encoding[kind, amount, pk]

\* What the program decodes from the instruction bytes of the call.
Decoded == Deserialize_CommandInstruction(call.instruction_data)

\* The record a client reads from account data, as the tests read it.
Balance(bytes) == Deserialize_Data(bytes).balance
Counter(bytes) == Deserialize_Data(bytes).number
HoldsRecord(bytes) == Len(bytes) = DataLen

\* The call was on a writable account owned by the program.
Admitted == Targeted /\ call.is_writable /\ owner = program_id

\* The call passed the writability, ownership and authorization checks with
\* this command.
PassesChecks(kind, amount) == Admitted /\ Carries(kind, amount, owner)

(***************************************************************************)
(* Claims.                                                                 *)
(***************************************************************************)
\* C1: a Deposit{amount}, amount > 0, that passes all checks on an account
\* holding a record with balance old, old + amount within u64, succeeds and
\* the persisted balance is old + amount.  (The empty slot is claim C13's.)
C1_DepositAddsAmount ==
    (Admitted /\ HoldsRecord(pre))
    => \A amount \in 1..U64Max :
         (Carries("Deposit", amount, owner) /\ Balance(pre) + amount <= U64Max)
         => (/\ result = "Ok"
             /\ HoldsRecord(data)
             /\ Balance(data) = Balance(pre) + amount
             /\ Counter(data) = Counter(pre))

C1_Witness ==
    /\ PassesChecks("Deposit", 2)
    /\ HoldsRecord(pre)
    /\ Balance(pre) = 1
    /\ result = "Ok"
    /\ Balance(data) = 3

\* C2: a Deposit{amount} with old + amount above the u64 maximum fails with
\* ArithmeticOverflow and leaves the persisted data as it was.
C2_OverflowFailsUnchanged ==
    (Admitted /\ HoldsRecord(pre))
    => \A amount \in 1..U64Max :
         (Carries("Deposit", amount, owner) /\ Balance(pre) + amount > U64Max)
         => (result = "ArithmeticOverflow" /\ data = pre)

\* C3: a Withdraw{amount}, 0 < amount <= old, that passes all checks on an
\* account holding a record with balance old succeeds and the persisted
\* balance is old - amount; amount = old leaves 0.
C3_WithdrawSubtractsAmount ==
    (Admitted /\ HoldsRecord(pre))
    => \A amount \in 1..U64Max :
         (Carries("Withdraw", amount, owner) /\ amount <= Balance(pre))
         => (/\ result = "Ok"
             /\ HoldsRecord(data)
             /\ Balance(data) = Balance(pre) - amount
             /\ Counter(data) = Counter(pre))

C3_Witness ==
    /\ PassesChecks("Withdraw", 2)
    /\ HoldsRecord(pre)
    /\ Balance(pre) = 2
    /\ result = "Ok"
    /\ Balance(data) = 0

\* C4: a Withdraw{amount} with amount above the account's current balance
\* (0 for an empty slot) fails with InsufficientFunds and leaves the
\* account's data, balance and counter, as it was.
C4_InsufficientFundsUnchanged ==
    (Admitted /\ load_data(pre).ok)
    => \A amount \in 1..U64Max :
         (Carries("Withdraw", amount, owner) /\ amount > load_data(pre).balance)
         => (result = InsufficientFunds /\ data = pre)

C4_Witness ==
    /\ PassesChecks("Withdraw", 2)
    /\ HoldsRecord(pre)
    /\ Balance(pre) = 1
    /\ Counter(pre) = 1
    /\ result = InsufficientFunds
    /\ data = pre

\* C5: after a successful CheckBalance the account holds the record it held
\* before, balance and counter.
C5_CheckBalanceKeepsRecord ==
    (Targeted /\ result = "Ok" /\ Decoded.ok /\ Decoded.kind = "CheckBalance")
    => (/\ Len(data) = Len(pre)
        /\ Balance(data) = Balance(pre)
        /\ Counter(data) = Counter(pre))

C5_Witness ==
    /\ Targeted
    /\ Carries("CheckBalance", 0, owner)
    /\ result = "Ok"
    /\ Counter(pre) = 1
    /\ Balance(pre) = 2
    /\ Counter(data) = 1
    /\ Balance(data) = 2

\* C6: a Deposit or Withdraw of amount 0 on a writable account owned by the
\* program fails with InvalidParameters and leaves the account's data as it
\* was, whatever the balance and the claimed owner.
C6_ZeroAmountRejected ==
    Admitted
    => \A kind \in {"Deposit", "Withdraw"}, pk \in Pubkeys :
         Carries(kind, 0, pk) => (result = InvalidParameters /\ data = pre)

C6_Witness ==
    /\ Admitted
    /\ Carries("Withdraw", 0, owner)
    /\ HoldsRecord(pre)
    /\ Balance(pre) = 2
    /\ result = InvalidParameters

\* C7: a call on an account that is not writable returns NotWritable and
\* leaves the account as it was, whatever the owner, the instruction bytes,
\* the amount and the claimed owner.
C7_NotWritableFirst ==
    (Targeted /\ ~call.is_writable) => (result = NotWritable /\ data = pre)

C7_Witness ==
    /\ Targeted
    /\ ~call.is_writable
    /\ owner # program_id
    /\ Carries("Deposit", 0, program_id)
    /\ result = NotWritable

\* C8: a call on a writable account whose owner is not the program id the
\* instruction is processed under returns IncorrectOwner and leaves the
\* account as it was.
C8_ForeignOwnerRejected ==
    (Targeted /\ call.is_writable /\ owner # program_id)
    => (result = IncorrectOwner /\ data = pre)

C8_Witness ==
    /\ Targeted
    /\ call.is_writable
    /\ owner # program_id
    /\ Carries("Deposit", 1, owner)
    /\ HoldsRecord(pre)
    /\ result = IncorrectOwner

\* C9: an instruction that decodes with an intended owner other than the
\* account's owner never succeeds and never changes the account's data; when
\* the writability, ownership and parameter checks pass, it returns
\* IncorrectOwner.
C9_WrongIntendedOwnerRejected ==
    (Targeted /\ Decoded.ok /\ Decoded.program_id # owner)
    => (/\ result # "Ok"
        /\ data = pre
        /\ (Admitted /\ (Decoded.kind = "CheckBalance" \/ Decoded.amount > 0)
              => result = IncorrectOwner))

C9_Witness ==
    /\ Admitted
    /\ \E pk \in Pubkeys : pk # owner /\ Carries("Deposit", 1, pk)
    /\ HoldsRecord(pre)
    /\ Balance(pre) = 0
    /\ result = IncorrectOwner

\* C10: whenever the call returns an error or aborts, the account's data is
\* exactly what it was before the call.
C10_FailureLeavesData ==
    (pc = "returned" /\ result # "Ok") => data = pre

C10_Witness ==
    /\ PassesChecks("Deposit", 1)
    /\ Len(pre) = DataLen + 1
    /\ result = "Panic"
    /\ data = pre

\* C12: instruction bytes that are not exactly the encoding of one
\* instruction (unknown tag, truncated payload, trailing bytes) are rejected
\* with MalformedInstruction and leave the account's data as it was.
MalformedInstruction == "InvalidAccountData"

WellFormed(bytes) ==
    \E kind \in Kinds, amount \in U64, pk \in Pubkeys : bytes = Encoding[kind, amount, pk]

C12_MalformedRejected ==
    (Admitted /\ ~WellFormed(call.instruction_data))
    => (result = MalformedInstruction /\ data = pre)

\* C13: a Deposit{amount} that passes all checks on an account whose data is
\* empty succeeds and leaves the record balance = amount, counter = 0.
C13_EmptySlotInitialised ==
    (Admitted /\ pre = <<>>)
    => \A amount \in 1..U64Max :
         Carries("Deposit", amount, owner)
         => (result = "Ok" /\ HoldsRecord(data) /\ Balance(data) = amount /\ Counter(data) = 0)

\* The first precondition of the specification a call violates, in the
\* specification's order, "None" when it violates none.
CauseOf(is_writable, bytes, account_data) ==
    LET instruction == Deserialize_CommandInstruction(bytes)
    IN  IF ~is_writable THEN "NotWritable"
        ELSE IF owner # program_id THEN "IncorrectOwner"
        ELSE IF ~instruction.ok THEN "MalformedInstruction"
        ELSE IF instruction.kind # "CheckBalance" /\ instruction.amount = 0 THEN "InvalidParameters"
        ELSE IF instruction.program_id # owner THEN "IncorrectOwner"
        ELSE IF /\ instruction.kind = "Withdraw"
                /\ load_data(account_data).ok
                /\ instruction.amount > load_data(account_data).balance THEN "InsufficientFunds"
        ELSE "None"

\* What the program returns for a call on the account as it was before the
\* call held.
ResultsOf(is_writable, bytes) ==
    {o.result : o \in process_instruction(program_id,
        <<[is_writable |-> is_writable, owner |-> owner, data |-> pre]>>, bytes)}

\* C15: the error a call returns tells its cause: no call failing for another
\* cause (not writable, undecodable, zero amount, insufficient funds, owner
\* mismatch) returns the same error.
C15_ErrorTellsCause ==
    (Targeted /\ CauseOf(call.is_writable, call.instruction_data, pre) # "None")
    => \A w \in BOOLEAN, ix \in InstructionBytes :
         (CauseOf(w, ix, pre) \notin {"None", CauseOf(call.is_writable, call.instruction_data, pre)})
         => result \notin ResultsOf(w, ix)

\* C17: when the instruction of a call violates several preconditions, the
\* call returns the error of the first one in the order writability,
\* ownership, parameter validation, authorization, and changes nothing.
C17_EarliestViolationWins ==
    (Targeted /\ Decoded.ok)
    => (/\ ~call.is_writable => result = NotWritable
        /\ (call.is_writable /\ owner # program_id) => result = IncorrectOwner
        /\ (Admitted /\ Decoded.kind # "CheckBalance" /\ Decoded.amount = 0)
             => result = InvalidParameters
        /\ (Admitted /\ (Decoded.kind = "CheckBalance" \/ Decoded.amount > 0)
              /\ Decoded.program_id # owner)
             => result = IncorrectOwner
        /\ (~Admitted \/ (Decoded.kind # "CheckBalance" /\ Decoded.amount = 0)
              \/ Decoded.program_id # owner)
             => data = pre)

\* A zero amount together with a mismatching intended owner.
C17_Witness ==
    /\ Admitted
    /\ \E pk \in Pubkeys : pk # owner /\ Carries("Withdraw", 0, pk)
    /\ result = InvalidParameters
    /\ result # IncorrectOwner

\* Cell i of the little-endian layout of v.
Cell(v, i) == (v \div Pow(Radix, i - 1)) % Radix

\* The balance a successful call leaves: the command applied to the balance
\* before it, a Deposit's sum being reduced to the width of a u64.
BalanceAfter ==
    IF Decoded.kind = "Deposit" THEN (Balance(pre) + Decoded.amount) % U64Modulus
    ELSE IF Decoded.kind = "Withdraw" THEN Balance(pre) - Decoded.amount
    ELSE Balance(pre)

\* C18: after a successful call the account's data has the length it had, the
\* length of a Data, and holds the counter in its first cells and the updated
\* balance in the next, each little-endian.
C18_FixedLayoutInPlace ==
    (Targeted /\ result = "Ok")
    => (/\ Len(data) = Len(pre)
        /\ Len(data) = DataLen
        /\ \A i \in 1..U64Len :
             /\ data[i] = Cell(Counter(pre), i)
             /\ data[U64Len + i] = Cell(BalanceAfter, i))

C18_Witness ==
    /\ PassesChecks("Deposit", 1)
    /\ HoldsRecord(pre)
    /\ Counter(pre) = 1
    /\ Balance(pre) = 0
    /\ result = "Ok"
    /\ Counter(data) = 1
    /\ Balance(data) = 1
    /\ data[1] = 1
    /\ data[U64Len + 1] = 1

\* The error kind of an empty account list, as next_account_info returns it.
MissingAccount == "NotEnoughAccountKeys"

\* What the program returns and leaves in the account for a call that lists
\* the account alone.
AloneOutcomes ==
    {<<o.result, o.accounts[1].data>> :
        o \in process_instruction(program_id,
                <<[is_writable |-> call.is_writable, owner |-> owner, data |-> pre]>>,
                call.instruction_data)}

\* C11: a call with an empty account list returns MissingAccount and changes
\* nothing; a call that lists a second account returns and leaves in the
\* first account what it would with the first account alone, and the second
\* account is never changed.
C11_OnlyFirstAccount ==
    /\ other = Ones(DataLen)
    /\ (pc = "returned" /\ call.accounts_len = 0) => (result = MissingAccount /\ data = pre)
    /\ (pc = "returned" /\ call.accounts_len = 2) => <<result, data>> \in AloneOutcomes

C11_Witness ==
    /\ pc = "returned"
    /\ call.accounts_len = 2
    /\ Carries("Deposit", 1, owner)
    /\ result = "Ok"
    /\ Balance(data) = Balance(pre) + 1
    /\ other = Ones(DataLen)

\* C19: in a session the balance is the sum of the successful Deposits less
\* the sum of the successful Withdraws, and is never negative.
C19_BalanceIsNetDeposits ==
    load_data(data).ok
    => (/\ load_data(data).balance = deposited - withdrawn
        /\ deposited - withdrawn >= 0)

\* C14: decoding the encoding of an account record returns the same record,
\* for every record with counter and balance in the u64 range.
C14_RecordRoundTrip ==
    codec_data.pc = "deserialized" =>
        /\ codec_data.back.ok
        /\ codec_data.back.number = codec_data.value.number
        /\ codec_data.back.balance = codec_data.value.balance

\* A record whose two fields differ, and differ from their own mirror
\* image, has been encoded and decoded.
C14_Witness ==
    /\ codec_data.pc = "deserialized"
    /\ codec_data.value.number = U64Max
    /\ codec_data.value.balance = 1
    /\ Len(codec_data.bytes) = DataLen

\* The failed answers among the RPC calls made so far.
FailedCalls == {k \in 1..Len(rpc_log) : rpc_log[k] = "Err"}
Returned == recent_blockhash # "None"

\* C16: get_latest_blockhash makes at most 5 attempts, returns the first
\* successful result without making further attempts, waits the same fixed
\* 2-second delay after each failed attempt, and returns a terminal error to
\* the caller exactly when all 5 attempts failed.
C16_BoundedRetryFixedDelay ==
    /\ Len(rpc_log) <= 5
    /\ \A k \in 1..Len(rpc_log) : rpc_log[k] # "Err" =>
          /\ k = Len(rpc_log)
          /\ recent_blockhash = rpc_log[k]
    /\ \A k \in 1..Len(sleeps) : sleeps[k] = 2
    /\ Len(sleeps) = Cardinality(FailedCalls) - (IF t_pc = "sleep" THEN 1 ELSE 0)
    /\ Returned =>
          (recent_blockhash = "Err" <=> Cardinality(FailedCalls) = 5)
    /\ recent_blockhash = "Err" <=> t_pc = "failed"

\* All five attempts failed, each was followed by its delay, and the caller
\* has the error.
C16_Witness ==
    /\ t_pc = "failed"
    /\ Cardinality(FailedCalls) = 5
    /\ Len(sleeps) = 5

\* C20: whatever the RPC call answers, get_latest_blockhash eventually
\* returns a blockhash or the terminal error.
C20_AlwaysTerminates == <>Returned

\* The function returned a blockhash on its last attempt, after four
\* failures.
C20_Witness ==
    /\ recent_blockhash \in Hashes
    /\ Len(rpc_log) = max_attempts
    /\ Len(sleeps) = max_attempts - 1

\* The counter a client reads from account data: 0 while the slot holds no
\* record yet.
CounterOf(bytes) == IF Len(bytes) < DataLen THEN 0 ELSE Counter(bytes)

\* C21: no command modifies the counter: after any Deposit, Withdraw or
\* CheckBalance, successful or failed, the persisted counter is the one
\* from before the instruction (0 for a record not yet written).
C21_CounterNeverModified ==
    Targeted /\ Decoded.ok => CounterOf(data) = CounterOf(pre)

\* A Deposit succeeded on a record whose counter is not 0 and changed its
\* balance.
C21_Witness ==
    /\ \E amount \in U64 \ {0} : PassesChecks("Deposit", amount)
    /\ result = "Ok"
    /\ HoldsRecord(pre)
    /\ Counter(pre) = U64Max
    /\ Balance(data) # Balance(pre)

\* main is over: it returned or it panicked.
MainOver == t_pc \in {"done", "failed", "panicked"}

\* The pairs whose wallet key and recipient address both parse.
ValidPairs == {i \in Pairs : wallets[i] /\ recipients[i]}
HandlesOf(i) == {k \in 1..Len(handles) : handles[k].pair = i}
ReportsOf(i) == {k \in 1..Len(results) : results[k].pair = i}

\* C22: with the blockhash fetched once, every pair below the shorter list is
\* one unit of work: its transfer is submitted once with that blockhash, its
\* task is awaited, and its outcome, a failure included, is listed as its own
\* result in configuration order, whatever happens to the other pairs.
C22_PairsIndependent ==
    /\ Cardinality({k \in 1..Len(rpc_log) : rpc_log[k] # "Err"}) <= 1
    /\ \A k \in 1..Len(handles) :
          /\ handles[k].pair \in Pairs
          /\ Cardinality(HandlesOf(handles[k].pair)) = 1
          /\ handles[k].blockhash = recent_blockhash
          /\ recent_blockhash \in Hashes
    /\ \A k \in 1..Len(results) :
          /\ Cardinality(ReportsOf(results[k].pair)) = 1
          /\ \E h \in HandlesOf(results[k].pair) :
                /\ handles[h].output # "None"
                /\ results[k].output = handles[h].output
          /\ \A l \in 1..Len(results) : k < l => results[k].pair < results[l].pair
    /\ MainOver /\ recent_blockhash \in Hashes =>
          \A i \in ValidPairs :
              /\ \E h \in HandlesOf(i) : handles[h].output # "None"
              /\ ReportsOf(i) # {}

\* C23: the subscriber attempts exactly one transfer of 1_000_000_000
\* lamports to the configured recipient for each item received, in order, and
\* waits for it before reading the next item; the first failed transfer ends
\* the loop with that error and no later item triggers a transfer; the loop
\* ends normally when the stream ends.
C23_OneTransferPerEvent ==
    /\ Len(transfers) = Len(events) - (IF s_pc = "send" THEN 1 ELSE 0)
    /\ \A k \in 1..Len(transfers) :
          /\ transfers[k].event = k
          /\ transfers[k].lamports = 1000000000
          /\ transfers[k].to = s_config.recipient
          /\ k < Len(transfers) => transfers[k].outcome = "Ok"
    /\ s_pc = "failed" <=>
          transfers # <<>> /\ transfers[Len(transfers)].outcome # "Ok"
    /\ s_pc = "failed" => s_result = transfers[Len(transfers)].outcome
    /\ s_pc = "ended" =>
          /\ s_result = "Ok"
          /\ \A k \in 1..Len(transfers) : transfers[k].outcome = "Ok"
    /\ s_result # "None" <=> s_pc \in {"failed", "ended"}

\* Two items were served by a transfer each and the transfer for the third
\* failed: the loop is over with that error.
C23_Witness ==
    /\ s_pc = "failed"
    /\ Len(events) = 3
    /\ Len(transfers) = 3
    /\ transfers[1].outcome = "Ok"
    /\ transfers[3].outcome = "SendError"
    /\ s_result = "SendError"

====
